---- MODULE Spec2Model ----
(***************************************************************************)
(* A model of resize.py: the command-line dispatch of main, the batch      *)
(* driver process_images and the single-image transform resize_image,      *)
(* running against a small file system and a wall clock.                   *)
(*                                                                         *)
(* Strings that the program inspects (arguments, file names, formats) are  *)
(* sequences of one-character strings, so that int(), lower(), endswith()  *)
(* and os.path.splitext() are computed as the code computes them.          *)
(***************************************************************************)
EXTENDS Integers, Sequences, FiniteSets, TLC

(***************************************************************************)
(* Bounds of the model.                                                    *)
(***************************************************************************)
MaxDim == 3      \* source images are 1..MaxDim pixels wide and high
MaxFiles == 2    \* the input directory holds at most MaxFiles entries
MaxRuns == 2     \* invocations of the program in one behaviour
MaxClock == 1    \* the wall clock shows seconds 0..MaxClock

(***************************************************************************)
(* Program constants.                                                      *)
(***************************************************************************)
DefaultQuality == 95
DPI == 72
MinQuality == 1
MaxQuality == 100
MinWidth == 1

\* Python's None for the optional width; a given width n is <<n>>.
None == <<>>
Some(n) == <<n>>

JPG == <<"j", "p", "g">>
JPEG == <<"j", "p", "e", "g">>
PNG == <<"p", "n", "g">>
WEBP == <<"w", "e", "b", "p">>
GIF == <<"g", "i", "f">>
DOT == "."

\* The formats main accepts as a third argument.
ValidFormats == {JPG, JPEG, PNG, WEBP}

\* image_extensions of process_images.
image_extensions == {<<DOT>> \o JPG, <<DOT>> \o JPEG, <<DOT>> \o PNG,
                     <<DOT>> \o WEBP, <<DOT>> \o GIF}

(***************************************************************************)
(* str.lower(), character by character.                                    *)
(***************************************************************************)
LowerChar(c) ==
  CASE c = "A" -> "a" [] c = "B" -> "b" [] c = "E" -> "e" [] c = "F" -> "f"
    [] c = "G" -> "g" [] c = "I" -> "i" [] c = "J" -> "j" [] c = "M" -> "m"
    [] c = "N" -> "n" [] c = "P" -> "p" [] c = "W" -> "w"
    [] OTHER -> c

Lower(s) == [k \in 1..Len(s) |-> LowerChar(s[k])]

\* str.endswith(suffix)
EndsWith(s, suf) ==
  /\ Len(suf) <= Len(s)
  /\ SubSeq(s, Len(s) - Len(suf) + 1, Len(s)) = suf

\* f.lower().endswith(image_extensions), the filter of process_images.
IsImageFile(f) == \E e \in image_extensions : EndsWith(Lower(f), e)

(***************************************************************************)
(* int(s): an optional sign followed by one or more decimal digits; any    *)
(* other text raises ValueError.                                           *)
(***************************************************************************)
Digits == {"0", "1", "2", "3", "4", "5", "6", "7", "8", "9"}

DigitVal(c) ==
  CASE c = "0" -> 0 [] c = "1" -> 1 [] c = "2" -> 2 [] c = "3" -> 3
    [] c = "4" -> 4 [] c = "5" -> 5 [] c = "6" -> 6 [] c = "7" -> 7
    [] c = "8" -> 8 [] c = "9" -> 9

RECURSIVE DigitsVal(_)
DigitsVal(s) ==
  IF s = <<>> THEN 0
  ELSE 10 * DigitsVal(SubSeq(s, 1, Len(s) - 1)) + DigitVal(s[Len(s)])

IsInt(s) ==
  LET body == IF s # <<>> /\ s[1] \in {"-", "+"} THEN Tail(s) ELSE s
  IN  body # <<>> /\ \A k \in 1..Len(body) : body[k] \in Digits

IntOf(s) ==
  IF s[1] = "-" THEN 0 - DigitsVal(Tail(s))
  ELSE IF s[1] = "+" THEN DigitsVal(Tail(s))
  ELSE DigitsVal(s)

(***************************************************************************)
(* os.path.splitext(p)[0] on the last path component.  The directory part  *)
(* of every path the program builds (resized_images_<timestamp>) holds no  *)
(* dot, so the last dot of the path, if any, lies in the file name: the    *)
(* root is the name up to its last dot, unless only dots precede it.       *)
(***************************************************************************)
LastDot(name) ==
  LET dots == {k \in 1..Len(name) : name[k] = DOT}
  IN  IF dots = {} THEN 0 ELSE CHOOSE k \in dots : \A j \in dots : j <= k

SplitextRoot(name) ==
  LET d == LastDot(name)
  IN  IF d > 0 /\ \E k \in 1..(d - 1) : name[k] # DOT
      THEN SubSeq(name, 1, d - 1)
      ELSE name

\* f"{output_base}.{output_format}"
DerivedName(name, fmt) == SplitextRoot(name) \o <<DOT>> \o fmt

(***************************************************************************)
(* The environment: the file system and the inputs the program can meet.   *)
(***************************************************************************)
\* input_folder of process_images, and the folder named after a timestamp.
input_folder == <<"images">>
OutputFolder(timestamp) == <<"resized_images", timestamp>>

\* os.path.join(folder, name)
Join(folder, name) == <<folder, name>>

\* Entries the input directory may hold.
FileNames == {
  <<"a", DOT, "j", "p", "g">>,
  <<"a", DOT, "P", "N", "G">>,
  <<DOT, "g", "i", "f">>,
  <<"n", DOT, "t", "x", "t">> }

\* Colour modes a decoded image may have.
Modes == {"RGB", "RGBA", "P", "LA"}

\* Command-line arguments, by position.
QualityArgs == {<<"0">>, <<"1", "0", "0">>, <<"1", "0", "1">>, <<"q">>}
WidthArgs == {<<"0">>, <<"1">>, <<"4">>, <<"-", "1">>, <<"w">>}
FormatArgs == {JPG, <<"J", "P", "E", "G">>, PNG, <<"W", "e", "b", "P">>,
               <<"b", "m", "p">>, GIF}

ArgLists ==
  {<<>>}
  \cup {<<q>> : q \in QualityArgs}
  \cup {<<q, w>> : q \in QualityArgs, w \in WidthArgs}
  \cup {<<q, w, f>> : q \in QualityArgs, w \in WidthArgs, f \in FormatArgs}
  \cup {<<q, w, f, f>> : q \in {<<"1", "0", "0">>}, w \in {<<"1">>}, f \in {JPG}}

\* The orders in which os.listdir may yield a set of names.
Listings(names) ==
  {s \in [1..Cardinality(names) -> names] :
     \A j, k \in 1..Cardinality(names) : j # k => s[j] # s[k]}

VARIABLES
  clock,         \* the wall clock, in seconds
  budget,        \* invocations of the program still to come
  dirs,          \* the directories on disk
  files,         \* the files on disk: path -> "source" or "output"
  pc,            \* where the program is: idle, process, loop, transform, save, exit
  argv,          \* sys.argv[1:] of the current invocation
  calls,         \* the calls of process_images made by main: <<>> or one record
  result,        \* what the invocation printed last: usage, rejected, ...
  dirsAtStart,   \* the directories on disk when process_images was entered
  output_folder, \* process_images: output_folder
  image_files,   \* process_images: image_files
  idx,           \* process_images: position of the for loop in image_files
  attempts,      \* the files passed to resize_image, in order
  reports,       \* the per-file lines printed, in order, with str(e)
  failed,        \* the positions of image_files whose processing raised
  handles,       \* the source images currently open
  img,           \* resize_image: img, <<>> before it is opened
  resized_img,   \* resize_image: resized_img, <<>> before it is computed
  output_path,   \* resize_image: output_path after line 21
  encoded,       \* the bitmap and parameters handed to save(), <<>> if none
  raised         \* the exception propagating out of the with block, or <<>>

fsVars == <<dirs, files>>
runVars == <<argv, calls, result>>
batchVars == <<dirsAtStart, output_folder, image_files, idx, attempts, reports, failed>>
imageVars == <<handles, img, resized_img, output_path, encoded, raised>>
vars == <<clock, budget, fsVars, pc, runVars, batchVars, imageVars>>

\* A fresh interpreter: nothing called, nothing open.
ResetBatch ==
  /\ dirsAtStart' = {}
  /\ output_folder' = <<>>
  /\ image_files' = <<>>
  /\ idx' = 0
  /\ attempts' = <<>>
  /\ reports' = <<>>
  /\ failed' = {}

ResetImage ==
  /\ handles' = {}
  /\ img' = <<>>
  /\ resized_img' = <<>>
  /\ output_path' = <<>>
  /\ encoded' = <<>>
  /\ raised' = <<>>

\* The disk before the first invocation, which starts at second 0.
InitWorld ==
  /\ clock = 0
  /\ \/ /\ dirs = {}
        /\ files = <<>>
     \/ \E names \in SUBSET FileNames :
          /\ Cardinality(names) <= MaxFiles
          /\ dirs = {input_folder}
          /\ files = [p \in {Join(input_folder, n) : n \in names} |-> "source"]
  /\ pc = "idle"
  /\ argv = <<>>
  /\ calls = <<>>
  /\ result = "none"
  /\ dirsAtStart = {}
  /\ output_folder = <<>>
  /\ image_files = <<>>
  /\ idx = 0
  /\ attempts = <<>>
  /\ reports = <<>>
  /\ failed = {}
  /\ handles = {}
  /\ img = <<>>
  /\ resized_img = <<>>
  /\ output_path = <<>>
  /\ encoded = <<>>
  /\ raised = <<>>

\* One invocation of the program.
Init == InitWorld /\ budget = 1

\* Up to MaxRuns invocations, one after the other, on the same disk.
InitRuns == InitWorld /\ budget = MaxRuns

(***************************************************************************)
(* main: dispatch on the number of arguments, validation, and the call of  *)
(* process_images.                                                         *)
(***************************************************************************)
\* A range check that lets 101 through.
QualityOKOffByOne(quality) == ~(quality < MinQuality \/ quality > MaxQuality + 1)

\* lines 78, 95
QualityOK(quality) == ~(quality < MinQuality \/ quality > MaxQuality)

\* lines 82, 99
WidthOK(width) == ~(width < MinWidth)

\* line 103
FormatOK(format) == format \in ValidFormats

Call(quality, width, format) ==
  [result |-> "running",
   calls |-> <<[quality |-> quality, width |-> width, format |-> format]>>]

Reject(message) == [result |-> message, calls |-> <<>>]

\* len(sys.argv) == 3: lines 73-88
MainTwoArgs(args) ==
  IF ~IsInt(args[1]) \/ ~IsInt(args[2]) THEN Reject("bad_number")
  ELSE LET quality == IntOf(args[1])
           width == IntOf(args[2])
       IN  IF ~QualityOK(quality) THEN Reject("bad_quality")
           ELSE IF ~WidthOK(width) THEN Reject("bad_width")
           ELSE Call(quality, Some(width), JPG)

\* len(sys.argv) == 4: lines 89-109
MainThreeArgs(args) ==
  IF ~IsInt(args[1]) \/ ~IsInt(args[2]) THEN Reject("bad_number")
  ELSE LET quality == IntOf(args[1])
           width == IntOf(args[2])
           format == Lower(args[3])
       IN  IF ~QualityOK(quality) THEN Reject("bad_quality")
           ELSE IF ~WidthOK(width) THEN Reject("bad_width")
           ELSE IF ~FormatOK(format) THEN Reject("bad_format")
           ELSE Call(quality, Some(width), format)

\* A dispatch that takes every argument list of three or more as three.
DispatchAtLeastThree(args) ==
  IF Len(args) = 0 THEN Call(DefaultQuality, None, JPG)
  ELSE IF Len(args) = 2 THEN MainTwoArgs(args)
  ELSE IF Len(args) >= 3 THEN MainThreeArgs(args)
  ELSE Reject("usage")

\* What main does with sys.argv[1:] = args.
Dispatch(args) ==
  IF Len(args) = 0 THEN Call(DefaultQuality, None, JPG)
  ELSE IF Len(args) = 2 THEN MainTwoArgs(args)
  ELSE IF Len(args) = 3 THEN MainThreeArgs(args)
  ELSE Reject("usage")

\* One invocation of the program, up to the call of process_images or to
\* main's return without one.
Main ==
  /\ pc = "idle"
  /\ budget > 0
  /\ \E args \in ArgLists :
       LET d == Dispatch(args)
       IN  /\ argv' = args
           /\ calls' = d.calls
           /\ result' = d.result
           /\ pc' = IF d.calls = <<>> THEN "idle" ELSE "process"
  /\ budget' = budget - 1
  /\ ResetBatch
  /\ ResetImage
  /\ UNCHANGED <<clock, fsVars>>

\* The wall clock reaches the next second.  Seconds count from the start of
\* the first invocation; process_images reads the clock once, on entry, so
\* the seconds that pass during a run are those before the next.
Tick ==
  /\ pc = "idle"
  /\ result # "none"
  /\ clock < MaxClock
  /\ clock' = clock + 1
  /\ UNCHANGED <<budget, fsVars, pc, runVars, batchVars, imageVars>>

(***************************************************************************)
(* process_images, lines 32-55: the output folder, the input folder, the   *)
(* listing and its filter.                                                 *)
(***************************************************************************)
\* lines 36-37
MakeOutputFolder(existing, folder) ==
  IF folder \notin existing THEN existing \cup {folder} ELSE existing

\* The names os.listdir(input_folder) yields.
Listed == {p[2] : p \in {q \in DOMAIN files : q[1] = input_folder}}

\* line 48
Filter(listing) == SelectSeq(listing, IsImageFile)

ProcessSetup ==
  /\ pc = "process"
  /\ dirsAtStart' = dirs
  /\ output_folder' = OutputFolder(clock)
  /\ dirs' = MakeOutputFolder(dirs, OutputFolder(clock))
  /\ IF input_folder \notin dirs
     THEN /\ result' = "nofolder"
          /\ pc' = "idle"
          /\ UNCHANGED <<image_files, idx>>
     ELSE \E listing \in Listings(Listed) :
            /\ image_files' = Filter(listing)
            /\ IF Filter(listing) = <<>>
               THEN /\ result' = "noimages"
                    /\ pc' = "idle"
                    /\ idx' = idx
               ELSE /\ result' = "running"
                    /\ pc' = "loop"
                    /\ idx' = 1
  /\ UNCHANGED <<clock, budget, files, argv, calls, attempts, reports, failed, imageVars>>

(***************************************************************************)
(* resize_image, one step at a time, inside the for loop and its           *)
(* try/except of process_images (lines 57-65).                             *)
(***************************************************************************)
Params == calls[1]

Current == image_files[idx]

\* `if target_width:` is false for None and for 0.
Truthy(width) == width # None /\ width # Some(0)

\* int(target_width * (img.height / img.width)), lines 11-12.  For the sizes
\* and widths of this model the double-precision product truncates to the
\* same integer as the exact quotient.
TargetHeight(target_width, image) == (target_width * image.height) \div image.width

Bitmap(width, height, mode) == [width |-> width, height |-> height, mode |-> mode]

\* Image.resize raises ValueError for a size with a side below 1.
ResizeRaises(image, target_width) ==
  target_width < 1 \/ TargetHeight(target_width, image) < 1

\* lines 9-17: the resampled bitmap keeps the colour mode of the source.
Resized(image, width) ==
  IF Truthy(width)
  THEN Bitmap(width[1], TargetHeight(width[1], image), image.mode)
  ELSE image

\* A test that forgets palette images.
NeedsRGBOnlyAlpha(output_format, mode) ==
  Lower(output_format) \in {JPG, JPEG} /\ mode \in {"RGBA"}

\* line 24
NeedsRGB(output_format, mode) ==
  Lower(output_format) \in {JPG, JPEG} /\ mode \in {"RGBA", "P"}

\* lines 24-25
Converted(bitmap, output_format, source_mode) ==
  IF NeedsRGB(output_format, source_mode)
  THEN Bitmap(bitmap.width, bitmap.height, "RGB")
  ELSE bitmap

\* An output path derived from the input path instead.
OutputPathInPlace(folder, image_file, output_format) ==
  Join(input_folder, DerivedName(image_file, output_format))

\* lines 20-21, on the path os.path.join(output_folder, image_file)
OutputPath(folder, image_file, output_format) ==
  Join(folder, DerivedName(image_file, output_format))

\* The JPEG encoder refuses bitmaps that carry alpha or a palette.
EncoderRefuses(output_format, mode) ==
  Lower(output_format) \in {JPG, JPEG} /\ mode \in {"RGBA", "P", "LA"}

\* line 63 when nothing was raised (exception = <<>>), line 65 otherwise
Report(image_file, exception) ==
  [file |-> image_file, ok |-> exception = <<>>, error |-> exception]

\* A with statement that releases the image only when its block ends
\* without an exception.
ReleaseOnSuccessOnly(open, image_file, exception) ==
  IF exception = <<>> THEN open \ {image_file} ELSE open

\* The with statement releases the image when its block is left, whether
\* or not the block raised.
Release(open, image_file, exception) == open \ {image_file}

\* An except clause that gives up on the remaining files.
NextIndexAborting(i, exception) ==
  IF exception = <<>> THEN i + 1 ELSE Len(image_files) + 1

\* lines 57, 64-65: the except clause swallows the exception, and the for
\* loop goes on to the next file either way.
NextIndex(i, exception) == i + 1

\* line 8 raised: the except clause prints the error and the loop goes on.
OpenFails ==
  /\ pc = "loop"
  /\ idx <= Len(image_files)
  /\ attempts' = Append(attempts, Current)
  /\ reports' = Append(reports, Report(Current, <<"decode">>))
  /\ failed' = failed \cup {idx}
  /\ idx' = NextIndex(idx, <<"decode">>)
  /\ UNCHANGED <<clock, budget, fsVars, pc, runVars, dirsAtStart, output_folder,
                 image_files, imageVars>>

\* line 8: the source is decoded.
Open ==
  /\ pc = "loop"
  /\ idx <= Len(image_files)
  /\ attempts' = Append(attempts, Current)
  /\ \E w \in 1..MaxDim, h \in 1..MaxDim, mode \in Modes :
       img' = <<Bitmap(w, h, mode)>>
  /\ handles' = handles \cup {Current}
  /\ pc' = "transform"
  /\ UNCHANGED <<clock, budget, fsVars, runVars, dirsAtStart, output_folder,
                 image_files, idx, reports, failed, resized_img, output_path,
                 encoded, raised>>

\* lines 9-25: resize, derive the output path, convert the colour mode.
Transform ==
  /\ pc = "transform"
  /\ IF Truthy(Params.width) /\ ResizeRaises(img[1], Params.width[1])
     THEN /\ raised' = <<"resize">>
          /\ pc' = "exit"
          /\ UNCHANGED <<resized_img, output_path>>
     ELSE /\ resized_img' =
               <<Converted(Resized(img[1], Params.width), Params.format, img[1].mode)>>
          /\ output_path' = OutputPath(output_folder, Current, Params.format)
          /\ pc' = "save"
          /\ raised' = raised
  /\ UNCHANGED <<clock, budget, fsVars, runVars, batchVars, handles, img, encoded>>

\* line 28: the bitmap is handed to the encoder, which writes the file or
\* raises; a failed save may leave a file behind at the path all the same.
Save ==
  /\ pc = "save"
  /\ encoded' = <<[path |-> output_path, bitmap |-> resized_img[1],
                   format |-> Params.format, quality |-> Params.quality,
                   dpi |-> <<DPI, DPI>>]>>
  /\ \/ /\ ~EncoderRefuses(Params.format, resized_img[1].mode)
        /\ files' = [p \in DOMAIN files \cup {output_path} |->
                       IF p = output_path THEN "output" ELSE files[p]]
        /\ raised' = <<>>
     \/ /\ raised' = <<"encode">>
        /\ \/ files' = files
           \/ files' = [p \in DOMAIN files \cup {output_path} |->
                          IF p = output_path THEN "output" ELSE files[p]]
  /\ pc' = "exit"
  /\ UNCHANGED <<clock, budget, dirs, runVars, batchVars, handles, img,
                 resized_img, output_path>>

\* The with block is left, resize_image returns or raises, and lines 63-65
\* print the outcome of the file.
Exit ==
  /\ pc = "exit"
  /\ handles' = Release(handles, Current, raised)
  /\ reports' = Append(reports, Report(Current, raised))
  /\ failed' = IF raised # <<>> THEN failed \cup {idx} ELSE failed
  /\ idx' = NextIndex(idx, raised)
  /\ pc' = "loop"
  /\ img' = <<>>
  /\ resized_img' = <<>>
  /\ output_path' = <<>>
  /\ encoded' = <<>>
  /\ raised' = <<>>
  /\ UNCHANGED <<clock, budget, fsVars, runVars, dirsAtStart, output_folder,
                 image_files, attempts>>

\* line 67: the loop is exhausted and the summary is printed.
Done ==
  /\ pc = "loop"
  /\ idx > Len(image_files)
  /\ result' = "done"
  /\ pc' = "idle"
  /\ UNCHANGED <<clock, budget, fsVars, argv, calls, batchVars, imageVars>>

Next ==
  \/ Main
  \/ Tick
  \/ ProcessSetup
  \/ OpenFails
  \/ Open
  \/ Transform
  \/ Save
  \/ Exit
  \/ Done

Spec == Init /\ [][Next]_vars

SpecRuns == InitRuns /\ [][Next]_vars

(***************************************************************************)
(* Properties.                                                             *)
(***************************************************************************)
Abs(n) == IF n < 0 THEN 0 - n ELSE n

\* The files on disk directly inside a folder.
FilesIn(folder) == {p \in DOMAIN files : p[1] = folder}

\* process_images returned before its loop.
ReturnedEarly == result \in {"nofolder", "noimages"}

\* C1: when process_images returns early because the input directory is
\* missing or holds no image, the directories on disk are those that were
\* there when it was called.
C1_EarlyReturnCreatesNoDirectory ==
  ReturnedEarly => dirs = dirsAtStart

\* C2: with a target width, resize_image resamples to the target width and
\* to the height nearest to width * originalHeight / originalWidth, a
\* height of at least 1, and no file is reported to have failed in the
\* resampling.
C2_HeightIsRounded ==
  /\ (pc = "save" /\ Truthy(Params.width)) =>
        /\ resized_img[1].width = Params.width[1]
        /\ resized_img[1].height >= 1
        /\ 2 * Abs(resized_img[1].height * img[1].width
                     - Params.width[1] * img[1].height) <= img[1].width
  /\ \A k \in 1..Len(reports) : reports[k].error # <<"resize">>

\* C3: every matching file is passed to resize_image exactly once and in
\* order, each file's report says whether that file failed, the files
\* after a failing one are still attempted, and a run that entered the
\* loop ends with the summary.
C3_EveryFileAttemptedOnce ==
  /\ pc = "loop" =>
       /\ idx \in 1..(Len(image_files) + 1)
       /\ attempts = SubSeq(image_files, 1, idx - 1)
       /\ Len(reports) = idx - 1
  /\ pc \in {"transform", "save", "exit"} =>
       /\ idx \in 1..Len(image_files)
       /\ attempts = SubSeq(image_files, 1, idx)
       /\ Len(reports) = idx - 1
  /\ \A k \in 1..Len(reports) :
       /\ reports[k].file = image_files[k]
       /\ reports[k].ok <=> k \notin failed
  /\ (pc = "idle" /\ image_files # <<>>) =>
       /\ result = "done"
       /\ attempts = image_files
       /\ Len(reports) = Len(image_files)

\* A finished run in which a file failed and a later file was processed.
C3_Witness ==
  /\ result = "done"
  /\ \E k \in failed : \E j \in 1..Len(reports) : j > k /\ reports[j].ok

\* The arguments fail validation, as the usage text defines it.
FailsValidation(args) ==
  /\ Len(args) \in {2, 3}
  /\ \/ ~IsInt(args[1])
     \/ ~IsInt(args[2])
     \/ IsInt(args[1]) /\ (IntOf(args[1]) < 1 \/ IntOf(args[1]) > 100)
     \/ IsInt(args[2]) /\ IntOf(args[2]) < 1
     \/ Len(args) = 3 /\ Lower(args[3]) \notin {JPG, JPEG, PNG, WEBP}

\* C4: an invocation whose arguments fail validation never calls
\* process_images: main has returned, no output folder exists and no input
\* file was opened.
C4_InvalidArgumentsRejected ==
  (result # "none" /\ FailsValidation(argv)) =>
     /\ calls = <<>>
     /\ pc = "idle"
     /\ dirs \subseteq {input_folder}
     /\ attempts = <<>>
     /\ handles = {}

\* Three arguments with an unsupported format were rejected.
C4_Witness ==
  /\ Len(argv) = 3
  /\ IsInt(argv[1]) /\ IntOf(argv[1]) \in 1..100
  /\ IsInt(argv[2]) /\ IntOf(argv[2]) >= 1
  /\ argv[3] = <<"b", "m", "p">>
  /\ result = "bad_format"

\* C5: after a run into a new output folder in which every file was
\* transformed, the output folder holds one file per input file.
C5_OneOutputPerInput ==
  (result = "done" /\ failed = {} /\ output_folder \notin dirsAtStart) =>
     Cardinality(FilesIn(output_folder)) = Len(image_files)

\* C6: a run hands a bitmap to the encoder only for a path in an output
\* folder that did not exist when the run started.
C6_FreshOutputFolder ==
  encoded # <<>> => output_folder \notin dirsAtStart

\* C7: for a JPEG-family format and an RGBA or palette source the encoder
\* is handed an RGB bitmap; otherwise it is handed the source's mode.
C7_EncoderMode ==
  encoded # <<>> =>
     IF Params.format \in {JPG, JPEG} /\ img[1].mode \in {"RGBA", "P"}
     THEN encoded[1].bitmap.mode = "RGB"
     ELSE encoded[1].bitmap.mode = img[1].mode

\* A resized palette image was handed to the JPEG encoder as RGB.
C7_Witness ==
  /\ encoded # <<>>
  /\ Params.format = JPEG
  /\ Truthy(Params.width)
  /\ img[1].mode = "P"
  /\ encoded[1].bitmap.mode = "RGB"

\* The first two arguments are a quality and a width main accepts.
ValidNumbers(args) ==
  /\ IsInt(args[1]) /\ IntOf(args[1]) \in 1..100
  /\ IsInt(args[2]) /\ IntOf(args[2]) >= 1

\* C8: main dispatches on the number of arguments: none runs the batch
\* with quality 95, no width and jpg; two valid ones run it with them and
\* jpg; three valid ones run it with them and the lower-cased format; any
\* other number prints the usage and runs nothing.
C8_Dispatch ==
  result # "none" =>
     /\ Len(argv) = 0 =>
          calls = <<[quality |-> 95, width |-> None, format |-> JPG]>>
     /\ (Len(argv) = 2 /\ ValidNumbers(argv)) =>
          calls = <<[quality |-> IntOf(argv[1]), width |-> Some(IntOf(argv[2])),
                     format |-> JPG]>>
     /\ (Len(argv) = 3 /\ ValidNumbers(argv)
           /\ Lower(argv[3]) \in {JPG, JPEG, PNG, WEBP}) =>
          calls = <<[quality |-> IntOf(argv[1]), width |-> Some(IntOf(argv[2])),
                     format |-> Lower(argv[3])]>>
     /\ Len(argv) \notin {0, 2, 3} =>
          calls = <<>> /\ result = "usage" /\ pc = "idle"

\* Three valid arguments, the format in upper case, started a batch.
C8_Witness ==
  /\ Len(argv) = 3
  /\ argv[3] = <<"J", "P", "E", "G">>
  /\ calls # <<>>
  /\ calls[1].format = JPEG

\* C9: at most one source image is open at any time, and none is open at
\* the start of a loop iteration, between runs or at the end of a run.
C9_OneImageOpen ==
  /\ Cardinality(handles) <= 1
  /\ pc \in {"idle", "process", "loop"} => handles = {}

\* The loop is at its head after a file whose save raised and after a
\* file whose resize raised.
C9_Witness ==
  /\ pc = "loop"
  /\ handles = {}
  /\ \E k \in 1..Len(reports) : reports[k].error = <<"encode">>
  /\ \E k \in 1..Len(reports) : reports[k].error = <<"resize">>

\* A step leaves the input directory as it was.
InputUntouched ==
  /\ FilesIn(input_folder)' = FilesIn(input_folder)
  /\ \A p \in FilesIn(input_folder) : files'[p] = files[p]
  /\ (input_folder \in dirs') <=> (input_folder \in dirs)

\* The path resize_image writes to lies directly inside the output folder.
WritesInsideOutputFolder ==
  output_path # <<>> =>
     /\ output_path[1] = output_folder
     /\ output_path[1] # input_folder
     /\ \A k \in 1..Len(output_path[2]) : output_path[2][k] # "/"

\* C10: a run never changes the input directory: every path written lies
\* directly inside the run's output folder, and no step adds, removes or
\* rewrites a file of the input directory.
C10_InputDirectoryUnchanged ==
  /\ []WritesInsideOutputFolder
  /\ [][InputUntouched]_vars

\* A finished run with a failed file and a written file.
C10_Witness ==
  /\ result = "done"
  /\ failed # {}
  /\ \E p \in FilesIn(output_folder) : files[p] = "output"

====
